---- MODULE Spec2Model ----
(***************************************************************************)
(* A model of mastodon-archiver.py: the sqlite ledger archived_posts, the  *)
(* posts/<id>.json record store, the boundary-aware pagination of          *)
(* get_posts_since_last_run and the per-item archive_post, driven by       *)
(* run() once per invocation (favorites, then bookmarks).                  *)
(*                                                                         *)
(* A post is modelled by its id (a positive integer); a remote feed is a   *)
(* sequence of distinct ids, newest first (ids decreasing).                *)
(***************************************************************************)
EXTENDS Integers, Sequences, FiniteSets, TLC

\* ------------------------------------------------------------------ bounds
MaxId == 2          \* ids of the small feeds of Spec are 1..MaxId
MaxRuns == 2        \* invocations of run() in one behaviour
MaxFaults == 1      \* injected failures (I/O errors, crashes) in one behaviour

ShortFeedPages == 2 \* the short feeds of SpecPages have up to this many full pages
LongFeedPages == 101 \* the long feed of SpecPages has this many full pages
ExampleTop == 10    \* the boundary example: the feed is 10, 9, ..., 1
ExampleMarker == 5  \* the boundary example: the ledger's marker
MaxAtts == 2        \* attachments of a post of SpecItems
NewItems == 3       \* items of SpecRuns' first page that no run has archived

\* ------------------------------------------------------- program constants
PageLimit == 40     \* params = {"limit": 40}
max_pages == 100    \* safety limit of the pagination loop
None == 0           \* Python's None (no id); ids are positive

Cat == {"favorite", "bookmark"}
Ids == 1..MaxId

VARIABLES
    feeds,              \* remote: category -> sequence of ids, newest first
    ledger,             \* table archived_posts: sequence of rows in rowid order
    records,            \* posts/<id>.json: id -> NoRecord or a record
    now,                \* the clock read by CURRENT_TIMESTAMP (seconds)
    writes,             \* number of record writes begun (stamps post_data)
    pc,                 \* position of the process
    cat,                \* category being processed
    run_no,             \* invocations of run() so far
    last_archived_id,   \* locals of get_posts_since_last_run
    max_id,
    pages_processed,
    posts,
    requests,           \* params of every request of the current call
    seen,               \* items received by the current call, in order
    warned,             \* the pagination-limit warning was logged
    returned,           \* the list the current call returned
    new_posts,          \* locals of archive_favorites / archive_bookmarks
    archived_count,
    last_call,          \* the latest archive_post call and what it returned
    faults,             \* failures still to inject
    hist,               \* history of the runs (for the properties)
    content,            \* remote: id -> body of the post (PlainPost if absent)
    media,              \* media/<filename>: filename -> "whole" or "partial"
    att_i,              \* archive_post: attachments of media_source consumed
    m_atts,             \* archive_post: post_data["media_attachments"] so far
    m_files,            \* archive_post: post_data["media_files"] so far
    download_log,       \* every download_media call and how it went
    exit_code,          \* exit status of the latest invocation
    created,            \* what the constructor has created on disk
    config              \* which environment variables are set

vars == <<feeds, ledger, records, now, writes, pc, cat, run_no,
          last_archived_id, max_id, pages_processed, posts, requests, seen,
          warned, returned, new_posts, archived_count, last_call, faults, hist,
          content, media, att_i, m_atts, m_files, download_log, exit_code,
          created, config>>

pagevars == <<last_archived_id, max_id, pages_processed, posts, requests, seen,
              warned, returned>>

itemvars == <<att_i, m_atts, m_files>>

\* what a run neither reads nor writes outside archive_post's media loop
diskvars == <<content, media, download_log, created, config>>

\* ----------------------------------------------------------------- helpers
Min(S) == CHOOSE x \in S : \A y \in S : x <= y

Reverse(s) == [i \in 1..Len(s) |-> s[Len(s) + 1 - i]]

Range(s) == {s[i] : i \in 1..Len(s)}

\* the ids n, n-1, ..., 1 : a feed, newest first
Desc(n) == [i \in 1..n |-> n + 1 - i]

\* the elements of a set of ids, newest (largest) first
RECURSIVE SortDesc(_)
SortDesc(S) ==
    IF S = {} THEN <<>>
    ELSE LET m == CHOOSE x \in S : \A y \in S : y <= x
         IN <<m>> \o SortDesc(S \ {m})

NoRecord == [type |-> "none", archived_at |-> 0, complete |-> FALSE]

NoCall == [post_id |-> None, post_type |-> "none", result |-> "none"]

\* ------------------------------------------------------------------ ledger
\* SELECT 1 FROM archived_posts WHERE post_id = ? AND post_type = ?
is_post_archived(db, post_id, post_type) ==
    \E i \in 1..Len(db) : db[i].post_id = post_id /\ db[i].post_type = post_type

\* (mutant) INSERT OR REPLACE: the conflicting row is deleted and a new one
\* is appended
mark_post_archived_replace(db, post_id, post_type, ts) ==
    Append(SelectSeq(db, LAMBDA r : r.post_id # post_id),
           [post_id |-> post_id, post_type |-> post_type, archived_at |-> ts])

\* INSERT OR IGNORE under the table's PRIMARY KEY (post_id): a row whose
\* post_id is already present is ignored, whatever its post_type;
\* archived_at defaults to CURRENT_TIMESTAMP.
mark_post_archived(db, post_id, post_type, ts) ==
    IF \E i \in 1..Len(db) : db[i].post_id = post_id
    THEN db
    ELSE Append(db, [post_id |-> post_id, post_type |-> post_type,
                     archived_at |-> ts])

\* SELECT post_id ... WHERE post_type = ? ORDER BY archived_at DESC LIMIT 1:
\* among the rows of the latest archived_at, sqlite returns the first in
\* scan (rowid) order.
LastArchivedId(db, post_type) ==
    LET idx == {i \in 1..Len(db) : db[i].post_type = post_type}
        best == {i \in idx : \A j \in idx : db[j].archived_at <= db[i].archived_at}
    IN IF idx = {} THEN None ELSE db[Min(best)].post_id

\* ------------------------------------------------------------------ remote
\* The remote endpoint: the items older than the cursor, newest first, at
\* most `limit` of them.
RemotePage(feed, cursor, limit) ==
    LET rest == IF cursor = None THEN feed
                ELSE SelectSeq(feed, LAMBDA p : p < cursor)
    IN SubSeq(rest, 1, IF Len(rest) < limit THEN Len(rest) ELSE limit)

\* params = {"limit": 40}, and params["max_id"] = max_id if max_id is set
request_params(cursor) == [limit |-> PageLimit, max_id |-> cursor]

\* get_api_data: the decoded page, or None on a RequestException (a
\* transport error, a non-2xx status, a body that does not decode)
get_api_data(feed, params, ok) ==
    IF ok THEN [status |-> "ok", json |-> RemotePage(feed, params.max_id, params.limit)]
    ELSE [status |-> "error", json |-> <<>>]

\* `not page_posts`: None or an empty list
Falsy(resp) == resp.status = "error" \/ resp.json = <<>>

\* (mutant) the scan notes the boundary but does not break
ScanPage_no_break(page, db, post_type, marker) ==
    [reached_archived_boundary |-> \E i \in 1..Len(page) : marker # None /\ page[i] = marker,
     new |-> SelectSeq(page, LAMBDA p : p # marker /\ ~is_post_archived(db, p, post_type))]

\* the scan of one page (for post in page_posts)
ScanPage(page, db, post_type, marker) ==
    LET hit == {i \in 1..Len(page) : marker # None /\ page[i] = marker}
        stop == IF hit = {} THEN Len(page) + 1 ELSE Min(hit)
        before == SubSeq(page, 1, stop - 1)
    IN [reached_archived_boundary |-> hit # {},
        new |-> SelectSeq(before, LAMBDA p : ~is_post_archived(db, p, post_type))]

\* (mutant) a page that adds nothing new also ends the pagination
page_ends_loop_if_stale(scan, page) ==
    scan.reached_archived_boundary \/ Len(page) < PageLimit \/ scan.new = <<>>

\* the two breaks after the scan: the boundary was reached, or the page
\* came back with fewer items than the limit
page_ends_loop(scan, page) ==
    scan.reached_archived_boundary \/ Len(page) < PageLimit

\* (mutant) the cursor is taken from the first item of the page
next_max_id_first(page) == page[1]

\* max_id = page_posts[-1]["id"]
next_max_id(page) == page[Len(page)]

\* (mutant) a failed or empty page is skipped and the loop goes on
after_falsy_page_retry == "paginate"

\* `if not page_posts: ... break`: the loop is left
after_falsy_page == "paginated"

\* (mutant) the loop guard is off by one
loop_continues_inclusive(n) == n <= max_pages

\* while pages_processed < max_pages
loop_continues(n) == n < max_pages

\* ---------------------------------------------------------------- archiver
\* post_data as archive_post builds it (the fields the properties read)
post_data(post_type, stamp) ==
    [type |-> post_type, archived_at |-> stamp, complete |-> TRUE,
     media_attachments |-> <<>>, media_files |-> <<>>]

\* a post without a reblog and without attachments
PlainPost == [well_formed |-> TRUE, reblog |-> FALSE, own |-> <<>>, inner |-> <<>>]

PostOf(bodies, post_id) ==
    IF post_id \in DOMAIN bodies THEN bodies[post_id] ELSE PlainPost

\* (mutant) the attachments are always the item's own
media_source_own(post) == post.own

\* media_source = post["reblog"] if post.get("reblog") else post, and its
\* media_attachments
media_source(post) == IF post.reblog THEN post.inner ELSE post.own

\* a url that urlparse rejects with ValueError (such as "http://[bad/x.png")
BadUrl == 3

\* generate_filename: urlparse(url) raises ValueError on a url it rejects;
\* otherwise the name is made of the post id, the hash of the url and the
\* index (two urls are taken to hash differently)
generate_filename(url, post_id, index) ==
    IF url = BadUrl THEN [raised |-> TRUE, name |-> <<>>]
    ELSE [raised |-> FALSE, name |-> <<post_id, url, index>>]

DownloadOutcome == {"ok", "refused", "truncated"}

\* (mutant) a failed download is reported as the local path
download_media_no_fallback(store, media_url, filename, outcome) ==
    [local_path |-> filename, store |-> store, how |-> outcome]

\* download_media: the relative path of a file that exists or was
\* downloaded, the remote url <<media_url>> when the download raised; a
\* download that fails while streaming leaves a truncated file behind
download_media(store, media_url, filename, outcome) ==
    IF filename \in DOMAIN store
    THEN [local_path |-> filename, store |-> store, how |-> "exists"]
    ELSE CASE outcome = "ok" ->
                  [local_path |-> filename, how |-> outcome,
                   store |-> [f \in DOMAIN store \cup {filename} |->
                                 IF f = filename THEN "whole" ELSE store[f]]]
           [] outcome = "refused" ->
                  [local_path |-> <<media_url>>, how |-> outcome, store |-> store]
           [] OTHER ->
                  [local_path |-> <<media_url>>, how |-> outcome,
                   store |-> [f \in DOMAIN store \cup {filename} |->
                                 IF f = filename THEN "partial" ELSE store[f]]]

\* the media_files entry of one attachment
media_file(attachment, local_path) ==
    [original_url |-> attachment.url, local_path |-> local_path]

RecordOf(recs, post_id) ==
    IF post_id \in DOMAIN recs THEN recs[post_id] ELSE NoRecord

PutRecord(recs, post_id, r) ==
    [x \in DOMAIN recs \cup {post_id} |-> IF x = post_id THEN r ELSE recs[x]]

\* open(post_path, "w") and json.dump: "ok" leaves the whole record;
\* "open_fail" leaves the store as it was; a failure or a kill during the
\* dump leaves a truncated file.
IoOutcome == {"ok", "open_fail", "write_fail", "killed"}

dump_record(recs, post_id, data, io) ==
    CASE io = "ok" -> PutRecord(recs, post_id, data)
      [] io = "open_fail" -> recs
      [] OTHER -> PutRecord(recs, post_id, [data EXCEPT !.complete = FALSE])

\* the try block of archive_post: mark_post_archived runs only when the
\* write raised nothing
commits_after(io) == io = "ok"

\* (mutant) the batch is returned in feed order, newest first
batch_order_kept(collected) == collected

\* posts.reverse(): the batch is returned oldest first
batch_order(collected) == Reverse(collected)

\* ----------------------------------------------------------------- history
Key(post_id, post_type) == <<post_id, post_type>>

NoKey == <<None, "none">>

Keys(s, post_type) == {Key(s[i], post_type) : i \in 1..Len(s)}

RunHist ==
    [ok |-> <<>>,           \* keys for which archive_post returned True, in order
     failed |-> {},         \* keys whose write or commit failed
     batched |-> {},        \* keys of the batches get_posts_since_last_run returned
     clean |-> TRUE,        \* no failure was injected during the run
     completed |-> FALSE,   \* run() returned
     changed |-> FALSE,     \* a feed changed since the run started
     cut |-> NoKey,         \* the run was killed between this key's write and commit
     pending |-> {},        \* batch keys not yet processed when the run was killed
     ledger0 |-> <<>>,      \* ledger and records when the run started
     records0 |-> <<>>,
     fetch_failed |-> {},   \* <<category, k>>: get_api_data failed on page k
     paged |-> {},          \* categories whose pagination returned
     called |-> {},         \* keys passed to archive_post
     raised |-> NoKey,      \* the key whose archive_post raised
     ledger_failed |-> FALSE] \* the ledger could not be opened or read

InitHist == [cur |-> RunHist, prev |-> RunHist, marked |-> {}]

\* ------------------------------------------------------------------ states
LocalsInit ==
    /\ cat = "favorite"
    /\ last_archived_id = None
    /\ max_id = None
    /\ pages_processed = 0
    /\ posts = <<>>
    /\ requests = <<>>
    /\ seen = <<>>
    /\ warned = FALSE
    /\ returned = <<>>
    /\ new_posts = <<>>
    /\ archived_count = [c \in Cat |-> 0]
    /\ last_call = NoCall
    /\ att_i = 0
    /\ m_atts = <<>>
    /\ m_files = <<>>

\* the process is gone: its locals with it
LocalsReset ==
    /\ cat' = "favorite"
    /\ last_archived_id' = None
    /\ max_id' = None
    /\ pages_processed' = 0
    /\ posts' = <<>>
    /\ requests' = <<>>
    /\ seen' = <<>>
    /\ warned' = FALSE
    /\ returned' = <<>>
    /\ new_posts' = <<>>

\* archive_post returned or was left: its media lists are gone
ItemReset ==
    /\ att_i' = 0
    /\ m_atts' = <<>>
    /\ m_files' = <<>>

Everything == {"directories", "log", "ledger"}

FullConfig == [base_url |-> TRUE, access_token |-> TRUE]

\* the archive directory after a construction that went through, with both
\* environment variables set
Installed ==
    /\ created = Everything
    /\ config = FullConfig
    /\ exit_code = "none"

\* every post is a plain one and media/ is empty
NoMedia ==
    /\ content = <<>>
    /\ media = <<>>
    /\ download_log = <<>>

\* the archive after construction (init_db on an empty directory), facing
\* any pair of small feeds
Init ==
    /\ feeds \in [Cat -> {SortDesc(S) : S \in SUBSET Ids}]
    /\ ledger = <<>>
    /\ records = <<>>
    /\ now = 0
    /\ writes = 0
    /\ pc = "idle"
    /\ run_no = 0
    /\ faults = MaxFaults
    /\ hist = InitHist
    /\ LocalsInit
    /\ Installed
    /\ NoMedia

\* ----------------------------------------------------------------- actions
\* the entry of get_posts_since_last_run: locals and the boundary query
BeginPagination(post_type) ==
    /\ cat' = post_type
    /\ last_archived_id' = LastArchivedId(ledger, post_type)
    /\ max_id' = None
    /\ pages_processed' = 0
    /\ posts' = <<>>
    /\ requests' = <<>>
    /\ seen' = <<>>
    /\ warned' = FALSE
    /\ returned' = <<>>
    /\ pc' = "paginate"

\* run() up to the boundary query of the favourites, which returned
EnterRun ==
    /\ run_no < MaxRuns
    /\ run_no' = run_no + 1
    /\ BeginPagination("favorite")
    /\ new_posts' = <<>>
    /\ archived_count' = [c \in Cat |-> 0]
    /\ last_call' = NoCall
    /\ hist' = [hist EXCEPT !.prev = hist.cur,
                            !.cur = [RunHist EXCEPT !.ledger0 = ledger,
                                                    !.records0 = records]]
    /\ exit_code' = "running"

\* main() -> run() -> archive_favorites() -> get_posts_since_last_run(...) on
\* an archive that is in place
StartRun ==
    /\ pc = "idle"
    /\ EnterRun
    /\ UNCHANGED <<feeds, ledger, records, now, writes, faults, itemvars,
                   content, media, download_log, created, config>>

\* one iteration of the while loop of get_posts_since_last_run
FetchPage ==
    /\ pc = "paginate"
    /\ loop_continues(pages_processed)
    /\ \E ok \in BOOLEAN :
        /\ ~ok => faults > 0
        /\ faults' = IF ok THEN faults ELSE faults - 1
        /\ hist' = IF ok THEN hist
                   ELSE [hist EXCEPT !.cur.clean = FALSE,
                                     !.cur.fetch_failed =
                                         @ \cup {<<cat, Len(requests) + 1>>}]
        /\ requests' = Append(requests, request_params(max_id))
        /\ LET resp == get_api_data(feeds[cat], request_params(max_id), ok)
               page_posts == resp.json
               scan == ScanPage(page_posts, ledger, cat, last_archived_id)
           IN IF Falsy(resp)
              THEN /\ pc' = after_falsy_page
                   /\ UNCHANGED <<pages_processed, posts, max_id, seen>>
              ELSE /\ pages_processed' = pages_processed + 1
                   /\ posts' = posts \o scan.new
                   /\ seen' = seen \o page_posts
                   /\ IF page_ends_loop(scan, page_posts)
                      THEN pc' = "paginated" /\ max_id' = max_id
                      ELSE pc' = "paginate" /\ max_id' = next_max_id(page_posts)
    /\ UNCHANGED <<feeds, ledger, records, now, writes, cat, run_no,
                   last_archived_id, warned, returned, new_posts,
                   archived_count, last_call, itemvars, diskvars, exit_code>>

\* after the loop: the limit warning, posts.reverse(), return; the caller
\* starts its for loop with archived_count = 0
ReturnPosts ==
    /\ \/ pc = "paginated"
       \/ pc = "paginate" /\ ~loop_continues(pages_processed)
    /\ warned' = (pages_processed >= max_pages)
    /\ returned' = batch_order(posts)
    /\ new_posts' = batch_order(posts)
    /\ archived_count' = [archived_count EXCEPT ![cat] = 0]
    /\ hist' = [hist EXCEPT !.cur.batched = @ \cup Keys(posts, cat),
                            !.cur.paged = @ \cup {cat}]
    /\ pc' = "archive"
    /\ UNCHANGED <<feeds, ledger, records, now, writes, cat, run_no,
                   last_archived_id, max_id, pages_processed, posts, requests,
                   seen, last_call, faults, itemvars, diskvars, exit_code>>

\* run()'s `except Exception`: the error is logged and sys.exit(1) ends the
\* process
RunAborts ==
    /\ pc' = "idle"
    /\ LocalsReset
    /\ last_call' = NoCall
    /\ exit_code' = "1"

\* one iteration of archive_post's loop over the attachments of media_source;
\* the loop is outside the try block, so the ValueError of generate_filename
\* leaves archive_post and reaches run()
DownloadMedia ==
    /\ pc = "archive"
    /\ new_posts # <<>>
    /\ LET post_id == Head(new_posts)
           post == PostOf(content, post_id)
           src == media_source(post)
       IN /\ ~is_post_archived(ledger, post_id, cat)
          /\ post.well_formed
          /\ att_i < Len(src)
          /\ LET attachment == src[att_i + 1]
                 media_url == attachment.url
                 filename == generate_filename(media_url, post_id, att_i)
             IN IF media_url = None
                THEN /\ att_i' = att_i + 1
                     /\ UNCHANGED <<m_atts, m_files, media, download_log, pc, cat,
                                    pagevars, new_posts, last_call, hist,
                                    exit_code>>
                ELSE IF filename.raised
                THEN /\ RunAborts
                     /\ ItemReset
                     /\ hist' = [hist EXCEPT !.cur.clean = FALSE,
                                             !.cur.called = @ \cup {Key(post_id, cat)},
                                             !.cur.raised = Key(post_id, cat),
                                             !.cur.pending = Keys(Tail(new_posts), cat)]
                     /\ UNCHANGED <<media, download_log>>
                ELSE \E outcome \in DownloadOutcome :
                     LET d == download_media(media, media_url, filename.name, outcome)
                     IN /\ att_i' = att_i + 1
                        /\ media' = d.store
                        /\ m_atts' = Append(m_atts, attachment)
                        /\ m_files' = Append(m_files, media_file(attachment, d.local_path))
                        /\ download_log' = Append(download_log,
                               [run |-> run_no, post_id |-> post_id,
                                post_type |-> cat, index |-> att_i,
                                url |-> media_url, how |-> d.how])
                        /\ UNCHANGED <<pc, cat, pagevars, new_posts, last_call,
                                       hist, exit_code>>
    /\ UNCHANGED <<feeds, ledger, records, now, writes, run_no, archived_count,
                   faults, content, created, config>>

\* archive_post up to the end of json.dump, the attachments done: the check
\* of the ledger, post_data (a post without its account raises KeyError,
\* outside the try block), the write of the record
SavePost ==
    /\ pc = "archive"
    /\ new_posts # <<>>
    /\ LET post_id == Head(new_posts)
           key == Key(post_id, cat)
           post == PostOf(content, post_id)
           data == [post_data(cat, writes + 1) EXCEPT !.media_attachments = m_atts,
                                                     !.media_files = m_files]
       IN IF is_post_archived(ledger, post_id, cat)
          THEN /\ last_call' = [post_id |-> post_id, post_type |-> cat, result |-> "False"]
               /\ new_posts' = Tail(new_posts)
               /\ pc' = "archive"
               /\ hist' = [hist EXCEPT !.cur.called = @ \cup {key}]
               /\ UNCHANGED <<records, writes, faults, cat, pagevars, exit_code>>
          ELSE IF ~post.well_formed
          THEN /\ RunAborts
               /\ hist' = [hist EXCEPT !.cur.clean = FALSE,
                                       !.cur.called = @ \cup {key},
                                       !.cur.raised = key,
                                       !.cur.pending = Keys(Tail(new_posts), cat)]
               /\ UNCHANGED <<records, writes, faults>>
          ELSE /\ att_i = Len(media_source(post))
               /\ \E io \in IoOutcome :
                   /\ io # "ok" => faults > 0
                   /\ faults' = IF io = "ok" THEN faults ELSE faults - 1
                   /\ writes' = writes + 1
                   /\ records' = dump_record(records, post_id, data, io)
                   /\ IF io = "killed"
                      THEN /\ pc' = "idle"
                           /\ LocalsReset
                           /\ last_call' = NoCall
                           /\ exit_code' = "killed"
                           /\ hist' = [hist EXCEPT !.cur.clean = FALSE,
                                                   !.cur.called = @ \cup {key},
                                                   !.cur.pending = Keys(new_posts, cat)]
                      ELSE IF commits_after(io)
                      THEN /\ pc' = "commit"
                           /\ hist' = IF io = "ok"
                                      THEN [hist EXCEPT !.cur.called = @ \cup {key}]
                                      ELSE [hist EXCEPT !.cur.clean = FALSE,
                                                        !.cur.called = @ \cup {key}]
                           /\ UNCHANGED <<new_posts, last_call, cat, pagevars, exit_code>>
                      ELSE /\ pc' = "archive"
                           /\ new_posts' = Tail(new_posts)
                           /\ last_call' = [post_id |-> post_id, post_type |-> cat,
                                            result |-> "False"]
                           /\ hist' = [hist EXCEPT !.cur.clean = FALSE,
                                                   !.cur.called = @ \cup {key},
                                                   !.cur.failed = @ \cup {key}]
                           /\ UNCHANGED <<cat, pagevars, exit_code>>
    /\ ItemReset
    /\ UNCHANGED <<feeds, ledger, now, run_no, archived_count, diskvars>>

\* archive_post from mark_post_archived to its return, and the caller's count
CommitPost ==
    /\ pc = "commit"
    /\ LET post_id == Head(new_posts)
           key == Key(post_id, cat)
       IN \E ok \in BOOLEAN :
           /\ ~ok => faults > 0
           /\ faults' = IF ok THEN faults ELSE faults - 1
           /\ IF ok
              THEN /\ ledger' = mark_post_archived(ledger, post_id, cat, now)
                   /\ archived_count' = [archived_count EXCEPT ![cat] = @ + 1]
                   /\ last_call' = [post_id |-> post_id, post_type |-> cat,
                                    result |-> "True"]
                   /\ hist' = [hist EXCEPT !.cur.ok = Append(@, key),
                                           !.marked = @ \cup {key}]
              ELSE /\ UNCHANGED <<ledger, archived_count>>
                   /\ last_call' = [post_id |-> post_id, post_type |-> cat,
                                    result |-> "False"]
                   /\ hist' = [hist EXCEPT !.cur.clean = FALSE,
                                           !.cur.failed = @ \cup {key}]
    /\ new_posts' = Tail(new_posts)
    /\ pc' = "archive"
    /\ UNCHANGED <<feeds, records, now, writes, cat, run_no, pagevars,
                   itemvars, diskvars, exit_code>>

\* the for loop is exhausted: archive_favorites returns and archive_bookmarks
\* starts, or archive_bookmarks returns and run() ends
FinishCategory ==
    /\ pc = "archive"
    /\ new_posts = <<>>
    /\ IF cat = "favorite"
       THEN /\ BeginPagination("bookmark")
            /\ UNCHANGED <<hist, new_posts, exit_code>>
       ELSE /\ pc' = "idle"
            /\ LocalsReset
            /\ exit_code' = "0"
            /\ hist' = [hist EXCEPT !.cur.completed = TRUE]
    /\ UNCHANGED <<feeds, ledger, records, now, writes, run_no, archived_count,
                   last_call, faults, itemvars, diskvars>>

\* the process is terminated, at any point between two steps
Kill ==
    /\ pc # "idle"
    /\ faults > 0
    /\ faults' = faults - 1
    /\ pc' = "idle"
    /\ LocalsReset
    /\ last_call' = NoCall
    /\ hist' = [hist EXCEPT !.cur.clean = FALSE,
                            !.cur.cut = IF pc = "commit"
                                        THEN Key(Head(new_posts), cat) ELSE NoKey,
                            !.cur.pending = Keys(new_posts, cat)]
    /\ ItemReset
    /\ exit_code' = "killed"
    /\ UNCHANGED <<feeds, ledger, records, now, writes, run_no, archived_count,
                   diskvars>>

\* a second passes. The program reads the clock only through the order of
\* the archived_at values, so the seconds are counted by rank: the clock moves
\* on when a row carries the current second (a second that stamps no row is
\* not told apart from the one before it), and a second that passes while
\* nothing is waiting to be committed is taken before the next commit.
Tick ==
    /\ pc = "archive"
    /\ new_posts # <<>>
    /\ \E i \in 1..Len(ledger) : ledger[i].archived_at = now
    /\ now' = now + 1
    /\ UNCHANGED <<feeds, ledger, records, writes, pc, cat, run_no, pagevars,
                   new_posts, archived_count, last_call, faults, hist, itemvars,
                   diskvars, exit_code>>

\* between two runs the user favourites or bookmarks the next newer post
RemoteAdd(c, top) ==
    /\ pc = "idle"
    /\ Len(feeds[c]) < top
    /\ feeds' = [feeds EXCEPT ![c] = <<Len(@) + 1>> \o @]
    /\ hist' = [hist EXCEPT !.cur.changed = TRUE]
    /\ UNCHANGED <<ledger, records, now, writes, pc, cat, run_no, pagevars,
                   new_posts, archived_count, last_call, faults, itemvars,
                   diskvars, exit_code>>

\* (mutant) one of the two variables is enough
config_ok_either(env) == env.base_url \/ env.access_token

\* main(): `if not base_url or not access_token` prints the error and exits
config_ok(env) == env.base_url /\ env.access_token

\* init_db: it returns, or sqlite3.connect raises (no ledger file is
\* created), or CREATE TABLE or CREATE INDEX raises (the file is there)
InitDbOutcome == {"ok", "connect", "create"}

\* what the constructor has put on disk when init_db ends that way: the
\* directories and the log file come before init_db
constructed(outcome) ==
    IF outcome = "connect" THEN {"directories", "log"} ELSE Everything

\* the history of an invocation that ended on a failure of the ledger
LedgerFailed ==
    [RunHist EXCEPT !.clean = FALSE, !.ledger_failed = TRUE,
                    !.ledger0 = ledger, !.records0 = records]

\* one invocation of main(), up to the first request of run(): the check of
\* the environment; the constructor (directories, log file, init_db), whose
\* errors are not caught and end the process with a traceback and exit code
\* 1; then run() and the boundary query of the favourites, whose error
\* reaches run()'s except
main ==
    /\ pc \in {"start", "idle", "exited"}
    /\ IF ~config_ok(config)
       THEN /\ pc' = "exited"
            /\ exit_code' = "1"
            /\ UNCHANGED <<created, faults, hist, run_no, cat, pagevars,
                           new_posts, archived_count, last_call>>
       ELSE \E outcome \in InitDbOutcome :
            /\ created' = created \cup constructed(outcome)
            /\ IF outcome # "ok"
               THEN /\ faults > 0
                    /\ faults' = faults - 1
                    /\ pc' = "exited"
                    /\ exit_code' = "1"
                    /\ hist' = [hist EXCEPT !.prev = hist.cur, !.cur = LedgerFailed]
                    /\ UNCHANGED <<run_no, cat, pagevars, new_posts,
                                   archived_count, last_call>>
               ELSE \E query_ok \in BOOLEAN :
                    IF query_ok
                    THEN /\ EnterRun
                         /\ UNCHANGED faults
                    ELSE /\ faults > 0
                         /\ faults' = faults - 1
                         /\ run_no < MaxRuns
                         /\ run_no' = run_no + 1
                         /\ RunAborts
                         /\ archived_count' = [c \in Cat |-> 0]
                         /\ hist' = [hist EXCEPT !.prev = hist.cur,
                                                 !.cur = LedgerFailed]
    /\ UNCHANGED <<feeds, ledger, records, now, writes, itemvars, content,
                   media, download_log, config>>

\* a read of the ledger raises sqlite3.Error outside any try block, and the
\* exception reaches run(): the boundary query of the bookmarks; or
\* is_post_archived at the head of archive_post; or is_post_archived in the
\* scan of a page that was just received
LedgerError ==
    /\ faults > 0
    /\ faults' = faults - 1
    /\ \/ /\ pc = "archive" /\ new_posts = <<>> /\ cat = "favorite"
          /\ hist' = [hist EXCEPT !.cur.clean = FALSE,
                                  !.cur.ledger_failed = TRUE]
       \/ /\ pc = "archive" /\ new_posts # <<>> /\ att_i = 0
          /\ hist' = [hist EXCEPT !.cur.clean = FALSE,
                                  !.cur.ledger_failed = TRUE,
                                  !.cur.called = @ \cup {Key(Head(new_posts), cat)},
                                  !.cur.raised = Key(Head(new_posts), cat),
                                  !.cur.pending = Keys(Tail(new_posts), cat)]
       \/ /\ pc = "paginate"
          /\ loop_continues(pages_processed)
          /\ LET page == get_api_data(feeds[cat], request_params(max_id), TRUE).json
             IN page # <<>> /\ page[1] # last_archived_id
          /\ hist' = [hist EXCEPT !.cur.clean = FALSE,
                                  !.cur.ledger_failed = TRUE]
    /\ RunAborts
    /\ ItemReset
    /\ UNCHANGED <<feeds, ledger, records, now, writes, run_no, archived_count,
                   diskvars>>

Next ==
    \/ StartRun
    \/ FetchPage
    \/ ReturnPosts
    \/ SavePost
    \/ CommitPost
    \/ FinishCategory
    \/ Kill
    \/ Tick


Spec == Init /\ [][Next]_vars

\* ------------------------------------------- one call on multi-page feeds
\* feed lengths around the page boundaries, and one longer than the limit
FeedLengths ==
    {k * PageLimit + d : k \in 0..ShortFeedPages, d \in {0, 1, PageLimit - 1}}
        \cup {LongFeedPages * PageLimit}

\* marker candidates for a feed of n items: every item of a short feed, items
\* around the page boundaries of a long one, and an id the feed does not hold
MarkerIds(n) ==
    {n + 1} \cup
    (IF n <= (ShortFeedPages + 1) * PageLimit THEN 1..n
     ELSE {n, n - PageLimit + 1, n - PageLimit, n - 2 * PageLimit - 6, PageLimit + 1, 1})

Row(post_id, post_type, ts) ==
    [post_id |-> post_id, post_type |-> post_type, archived_at |-> ts]

RECURSIVE RowsFor(_, _, _)
RowsFor(S, post_type, ts) ==
    IF S = {} THEN <<>>
    ELSE LET m == Min(S)
         IN <<Row(m, post_type, ts)>> \o RowsFor(S \ {m}, post_type, ts)

\* ledgers with marker m on a feed of n items: the marker's row alone; with
\* the two posts before it archived earlier; with newer posts archived
\* earlier (skew); with a later row of the other category; with the whole
\* first page of the feed archived earlier
LedgersWith(m, n) ==
    {<<Row(m, "favorite", 1)>>,
     RowsFor({m - 2, m - 1} \cap (1..n), "favorite", 0) \o <<Row(m, "favorite", 1)>>,
     RowsFor({m + 1, m + PageLimit, n} \cap ((m + 1)..n), "favorite", 0)
         \o <<Row(m, "favorite", 1)>>,
     <<Row(m, "favorite", 1)>> \o RowsFor({m + 1} \cap (1..n), "bookmark", 2),
     RowsFor((((n - PageLimit + 1)..n) \cap (1..n)) \ {m}, "favorite", 0)
         \o <<Row(m, "favorite", 1)>>}

InitPages ==
    /\ \E n \in FeedLengths :
        /\ feeds = [c \in Cat |-> IF c = "favorite" THEN Desc(n) ELSE <<>>]
        /\ \/ ledger = <<>>
           \/ \E m \in MarkerIds(n) : ledger \in LedgersWith(m, n)
    /\ records = [i \in {ledger[j].post_id : j \in 1..Len(ledger)} |-> post_data(
                     (CHOOSE r \in Range(ledger) : r.post_id = i).post_type, 0)]
    /\ now = 2
    /\ writes = 0
    /\ pc = "idle"
    /\ run_no = 0
    /\ faults \in {0, 1}
    /\ hist = InitHist
    /\ LocalsInit
    /\ Installed
    /\ NoMedia

NextPages ==
    \/ StartRun
    \/ FetchPage
    \/ ReturnPosts

SpecPages == InitPages /\ [][NextPages]_vars

\* ------------------------------------------ whole runs on multi-page feeds
\* An earlier run archived, within one second, the favourites of its time,
\* post 1 first. Since then post 1 was un-favourited, so the boundary query
\* still names it and no page holds it, and the NewItems newest items were
\* favourited. The favourites are one full page (the second page comes back
\* empty), or one full page and post 2, which no run has archived; the one
\* bookmark is not a favourite.
RunFeedLengths == {PageLimit, PageLimit + 1}

\* the favourites n + 1, n, ..., 2
RunFeed(n) == [i \in 1..n |-> n + 2 - i]

\* the posts of the earlier run: post 1 and the items of the first page but
\* the NewItems newest
ArchivedEarlier(n) == {1} \cup ((n + 2 - PageLimit)..(n + 1 - NewItems))

InitRuns ==
    /\ \E n \in RunFeedLengths :
        /\ feeds = [c \in Cat |-> IF c = "favorite" THEN RunFeed(n) ELSE <<n + 2>>]
        /\ ledger = RowsFor(ArchivedEarlier(n), "favorite", 0)
        /\ records = [i \in ArchivedEarlier(n) |-> post_data("favorite", 0)]
    /\ now = 0
    /\ writes = 0
    /\ pc = "idle"
    /\ run_no = 0
    /\ faults \in {0, 1}
    /\ hist = InitHist
    /\ LocalsInit
    /\ Installed
    /\ NoMedia

NextRuns ==
    \/ StartRun
    \/ FetchPage
    \/ ReturnPosts
    \/ SavePost
    \/ CommitPost
    \/ FinishCategory
    \/ Tick

SpecRuns == InitRuns /\ [][NextRuns]_vars

\* ------------------------------------------------- posts with attachments
\* an attachment: its url (None when the attachment carries none) and the
\* post it hangs on
Attachment(url, owner) == [url |-> url, owner |-> owner]

AttUrls == {None, 1, 2, BadUrl}

RECURSIVE AttSeqs(_, _)
AttSeqs(owner, n) ==
    IF n = 0 THEN {<<>>}
    ELSE LET shorter == AttSeqs(owner, n - 1)
         IN shorter \cup {Append(s, Attachment(u, owner)) :
                             s \in {t \in shorter : Len(t) = n - 1}, u \in AttUrls}

\* the bodies of post 1: a post with its own attachments, a reblog with no
\* or one attachment of its own and the attachments of the reblogged post,
\* and a post without its "account" object
Malformed == [PlainPost EXCEPT !.well_formed = FALSE]

Bodies ==
    {[well_formed |-> TRUE, reblog |-> FALSE, own |-> a, inner |-> <<>>] :
         a \in AttSeqs("outer", MaxAtts)}
    \cup {[well_formed |-> TRUE, reblog |-> TRUE, own |-> a, inner |-> b] :
         a \in {<<>>, <<Attachment(1, "outer")>>}, b \in AttSeqs("inner", MaxAtts)}
    \cup {Malformed}

InitItems ==
    /\ feeds \in [Cat -> {<<>>, <<1>>, <<2, 1>>}]
    /\ feeds["favorite"] # <<>>
    /\ feeds["bookmark"] # <<2, 1>>
    /\ ledger = <<>>
    /\ records = <<>>
    /\ now = 0
    /\ writes = 0
    /\ pc = "idle"
    /\ run_no = 0
    /\ faults = 0
    /\ hist = InitHist
    /\ LocalsInit
    /\ Installed
    /\ content \in [{1} -> Bodies]
    /\ media = <<>>
    /\ download_log = <<>>

NextItems ==
    \/ StartRun
    \/ FetchPage
    \/ ReturnPosts
    \/ DownloadMedia
    \/ SavePost
    \/ CommitPost
    \/ FinishCategory
    \/ Tick

SpecItems == InitItems /\ [][NextItems]_vars

\* ------------------------------------------------ the process from main()
\* any setting of the two environment variables, nothing on disk yet, small
\* feeds, post 1 with or without its "account" object
InitMain ==
    /\ feeds \in [Cat -> {SortDesc(S) : S \in SUBSET Ids}]
    /\ content \in [{1} -> {PlainPost, Malformed}]
    /\ config \in [{"base_url", "access_token"} -> BOOLEAN]
    /\ created = {}
    /\ exit_code = "none"
    /\ ledger = <<>>
    /\ records = <<>>
    /\ media = <<>>
    /\ download_log = <<>>
    /\ now = 0
    /\ writes = 0
    /\ pc = "start"
    /\ run_no = 0
    /\ faults = MaxFaults
    /\ hist = InitHist
    /\ LocalsInit

NextMain ==
    \/ main
    \/ FetchPage
    \/ ReturnPosts
    \/ SavePost
    \/ CommitPost
    \/ FinishCategory
    \/ LedgerError
    \/ Tick

SpecMain == InitMain /\ [][NextMain]_vars

\* ---------------------------------------------------- the boundary example
InitExample ==
    /\ feeds = [c \in Cat |-> IF c = "favorite" THEN Desc(ExampleMarker) ELSE <<>>]
    /\ ledger = <<>>
    /\ records = <<>>
    /\ now = 0
    /\ writes = 0
    /\ pc = "idle"
    /\ run_no = 0
    /\ faults = 0
    /\ hist = InitHist
    /\ LocalsInit
    /\ Installed
    /\ NoMedia

NextExample ==
    \/ StartRun
    \/ FetchPage
    \/ ReturnPosts
    \/ SavePost
    \/ CommitPost
    \/ FinishCategory
    \/ Tick
    \/ RemoteAdd("favorite", ExampleTop)

SpecExample == InitExample /\ [][NextExample]_vars

\* ------------------------------------------------------------- properties
RowsOf(db, post_id) == {i \in 1..Len(db) : db[i].post_id = post_id}

RunEnded == pc = "idle" /\ hist.cur.completed

\* C1 (idempotency): when a run completed without failure and the next run,
\* against the same feeds and again without failure, completes, that second
\* run counted 0 new items in both categories and left the ledger rows and
\* the records as they were when it started.
C1_Idempotent ==
    (RunEnded /\ hist.cur.clean /\ hist.prev.completed /\ hist.prev.clean
        /\ ~hist.prev.changed)
    => /\ archived_count = [c \in Cat |-> 0]
       /\ ledger = hist.cur.ledger0
       /\ records = hist.cur.records0

\* C2 (no duplication): a key for which archive_post returned True in the
\* previous run is not archived again in the current run (archive_post does
\* not return True for it), and the ledger holds at most one row for it.
C2_NoDuplication ==
    \A k \in Range(hist.prev.ok) :
        /\ k \notin Range(hist.cur.ok)
        /\ Cardinality({i \in RowsOf(ledger, k[1]) : ledger[i].post_type = k[2]}) <= 1

\* C3 (record before ledger): in every state every ledger row has a record
\* file that is completely written; a row is only ever inserted for a post
\* whose record was completely written, by the same archive_post call,
\* before the insert; and a step in which the record write fails inserts no
\* row, reports False (or dies) and leaves the item without a commit.
C3_RecordBeforeLedger ==
    /\ [](\A i \in 1..Len(ledger) : RecordOf(records, ledger[i].post_id).complete)
    /\ [][/\ \A i \in 1..Len(ledger') :
               i > Len(ledger) =>
                   /\ RecordOf(records, ledger'[i].post_id) = post_data(ledger'[i].post_type, writes)
                   /\ records' = records
          /\ (writes' # writes /\ RecordOf(records', Head(new_posts)) # post_data(cat, writes'))
               => /\ ledger' = ledger
                  /\ pc' # "commit"
                  /\ last_call'.result # "True"
                  /\ pc' = "archive" =>
                        /\ last_call' = [post_id |-> Head(new_posts), post_type |-> cat,
                                         result |-> "False"]
                        /\ new_posts' = Tail(new_posts)
                        /\ archived_count' = archived_count]_vars

\* C4 (failed items are retried): when exactly one item of a completed run
\* failed (record write or ledger commit) while the rest of its batch was
\* archived, and the next run completes without failure, then the item was
\* not in the ledger when that next run started, and that run put it in its
\* batch and archived it.
C4_FailedItemRetried ==
    (RunEnded /\ hist.cur.clean /\ hist.prev.completed
        /\ Cardinality(hist.prev.failed) = 1
        /\ (hist.prev.batched \ hist.prev.failed) \subseteq Range(hist.prev.ok))
    => \A k \in hist.prev.failed :
          /\ ~is_post_archived(hist.cur.ledger0, k[1], k[2])
          /\ k \in hist.cur.batched
          /\ k \in Range(hist.cur.ok)

\* C5 (interruption between record write and commit): when a run was killed
\* after an item's record was written and before its commit, and the next
\* run completes without failure, then that run had the item in its batch,
\* archive_post returned True for it exactly once, its record is complete,
\* the ledger holds exactly one row for the post, and every item still
\* pending in the interrupted batch was archived.
C5_InterruptedItemRearchived ==
    (RunEnded /\ hist.cur.clean /\ hist.prev.cut # NoKey)
    => LET k == hist.prev.cut
       IN /\ k \in hist.cur.batched
          /\ Cardinality({i \in 1..Len(hist.cur.ok) : hist.cur.ok[i] = k}) = 1
          /\ RecordOf(records, k[1]).complete
          /\ Cardinality(RowsOf(ledger, k[1])) = 1
          /\ hist.prev.pending \subseteq Range(hist.cur.ok)

\* the run after an interruption between write and commit has ended, and the
\* interrupted batch held a newer item as well
C5_Witness ==
    /\ RunEnded
    /\ hist.cur.clean
    /\ hist.prev.cut # NoKey
    /\ Cardinality(hist.prev.pending) > 1
    /\ Len(hist.prev.ok) > 0

\* C6 (membership per (id, category)): is_post_archived(id, category) is
\* true exactly when mark_post_archived was called with that id and that
\* category.
C6_MembershipPerCategory ==
    \A id \in Ids, c \in Cat :
        is_post_archived(ledger, id, c) <=> Key(id, c) \in hist.marked

\* C7 (append-only, unique keys): the ledger never holds two rows with the
\* same (id, category); every step keeps every existing row as it is, in
\* place; and mark_post_archived with a key already present returns without
\* error and changes no row.
C7_AppendOnlyUnique ==
    /\ [](\A i, j \in 1..Len(ledger) :
            (ledger[i].post_id = ledger[j].post_id
                /\ ledger[i].post_type = ledger[j].post_type) => i = j)
    /\ [](\A id \in Ids, c \in Cat :
            is_post_archived(ledger, id, c)
                => mark_post_archived(ledger, id, c, now) = ledger)
    /\ [][/\ Len(ledger') >= Len(ledger)
          /\ \A i \in 1..Len(ledger) : ledger'[i] = ledger[i]
          /\ (pc = "commit" /\ last_call'.result = "True"
                /\ RowsOf(ledger, Head(new_posts)) # {}) => ledger' = ledger]_vars

\* mark_post_archived was called for a post that already had a row (under
\* the other category) at a later second: it returned normally, and the row
\* is as it was
C7_Witness ==
    /\ last_call.result = "True"
    /\ RowsOf(ledger, last_call.post_id) # {}
    /\ \A i \in RowsOf(ledger, last_call.post_id) :
          ledger[i].post_type # last_call.post_type /\ ledger[i].archived_at < now


\* the position of an id in a feed (0 when absent)
IndexOf(feed, post_id) ==
    IF \E i \in 1..Len(feed) : feed[i] = post_id
    THEN Min({i \in 1..Len(feed) : feed[i] = post_id})
    ELSE 0

NotArchived(s, db, post_type) ==
    SelectSeq(s, LAMBDA p : ~\E i \in 1..Len(db) :
                                db[i].post_id = p /\ db[i].post_type = post_type)

\* get_posts_since_last_run has just returned
Returned == pc = "archive" /\ new_posts = returned /\ last_call = NoCall

\* C8 (boundary scan): when the call returned, the ledger had a marker for
\* the category and the marker was among the fetched items, then the batch
\* is exactly the feed items before the marker that have no row of that
\* category (returned oldest first), nothing at or after the marker is in
\* it, and the page holding the marker was the last one requested.
C8_BoundaryScan ==
    (Returned /\ last_archived_id # None /\ last_archived_id \in Range(seen))
    => LET feed == feeds[cat]
           at == IndexOf(feed, last_archived_id)
       IN /\ returned = Reverse(NotArchived(SubSeq(feed, 1, at - 1), ledger, cat))
          /\ \A i \in at..Len(feed) : feed[i] \notin Range(returned)
          /\ Len(requests) = ((at - 1) \div PageLimit) + 1
          /\ Len(seen) <= Len(requests) * PageLimit

\* the marker was found on a later page, with further pages behind it; some
\* of the items before it were new and some already had a row
C8_Witness ==
    /\ Returned
    /\ last_archived_id \in Range(seen)
    /\ Len(requests) >= 2
    /\ Len(feeds[cat]) > Len(requests) * PageLimit
    /\ returned # <<>>
    /\ Len(returned) < IndexOf(feeds[cat], last_archived_id) - 1

\* C9 as stated (boundary example): with the feed 10, 9, ..., 1 and the
\* ledger of the example (rows for 5 and below, boundary marker 5), a
\* failure-free run archives exactly 9, 8, 7, 6, in the order 6, 7, 8, 9, and
\* leaves the records of 5 and below as they were.
C9_ExampleAsStated ==
    (RunEnded /\ hist.cur.clean /\ ~hist.cur.changed
        /\ feeds["favorite"] = Desc(ExampleTop)
        /\ LastArchivedId(hist.cur.ledger0, "favorite") = ExampleMarker
        /\ \A i \in 1..Len(hist.cur.ledger0) :
              hist.cur.ledger0[i].post_id <= ExampleMarker)
    => /\ hist.cur.ok = [i \in 1..(ExampleTop - 1 - ExampleMarker) |->
                            Key(ExampleMarker + i, "favorite")]
       /\ \A i \in 1..ExampleMarker :
              RecordOf(records, i) = RecordOf(hist.cur.records0, i)

\* C9 as amended: with the feed 10, 9, ..., 1 and a ledger whose marker is 5,
\* a failure-free run archives exactly the items newer than 5 that have no
\* row yet (10, 9, 8, 7, 6 when the ledger holds only 5 and older), oldest
\* first (6, 7, 8, 9, 10), and neither archives nor rewrites 5 or any item
\* below it.
C9_Example ==
    (RunEnded /\ hist.cur.clean /\ ~hist.cur.changed
        /\ feeds["favorite"] = Desc(ExampleTop)
        /\ LastArchivedId(hist.cur.ledger0, "favorite") = ExampleMarker)
    => LET newer == [i \in 1..(ExampleTop - ExampleMarker) |-> ExampleMarker + i]
           fresh == NotArchived(newer, hist.cur.ledger0, "favorite")
       IN /\ hist.cur.ok = [i \in 1..Len(fresh) |-> Key(fresh[i], "favorite")]
          /\ (\A i \in 1..Len(hist.cur.ledger0) :
                  hist.cur.ledger0[i].post_id <= ExampleMarker)
                => Len(hist.cur.ok) = ExampleTop - ExampleMarker
          /\ \A i \in 1..ExampleMarker :
                 /\ RecordOf(records, i) = RecordOf(hist.cur.records0, i)
                 /\ \A j \in 1..Len(hist.cur.ok) : hist.cur.ok[j][1] # i
          /\ \A i \in 1..Len(hist.cur.ledger0) : ledger[i] = hist.cur.ledger0[i]

\* the run of the example has ended: the ledger held 1..5 with marker 5 and
\* the run archived five items
C9_Witness ==
    /\ RunEnded
    /\ hist.cur.clean
    /\ ~hist.cur.changed
    /\ feeds["favorite"] = Desc(ExampleTop)
    /\ LastArchivedId(hist.cur.ledger0, "favorite") = ExampleMarker
    /\ Len(hist.cur.ledger0) = ExampleMarker
    /\ Len(hist.cur.ok) = ExampleTop - ExampleMarker

\* C10 (pagination termination): a call never issues more than max_pages
\* requests; once max_pages pages are processed no further request can be
\* issued and the call can only return; and a call that processed max_pages
\* pages without meeting the marker returns, oldest first, the new items of
\* those pages and has logged the warning.
C10_PaginationTerminates ==
    /\ Len(requests) <= max_pages
    /\ (pc = "paginate" /\ pages_processed >= max_pages)
          => (~ENABLED FetchPage /\ ENABLED ReturnPosts)
    /\ (Returned /\ pages_processed >= max_pages
            /\ last_archived_id \notin Range(seen))
          => /\ warned
             /\ Len(requests) = max_pages
             /\ seen = SubSeq(feeds[cat], 1, max_pages * PageLimit)
             /\ returned = Reverse(NotArchived(seen, ledger, cat))

\* the feed gave max_pages full pages without the marker; the call returned
\* all their new items and warned
C10_Witness ==
    /\ Returned
    /\ warned
    /\ Len(requests) = max_pages
    /\ last_archived_id # None
    /\ last_archived_id \notin Range(seen)
    /\ Len(feeds[cat]) > max_pages * PageLimit
    /\ Len(returned) > (max_pages - 1) * PageLimit

\* ------------------------------------------------------------ C11 .. C20
\* the current call's latest request got no page (an error or an empty list)
LastPageFalsy == Len(requests) = pages_processed + 1

\* C11 (fetch failure is end-of-data): when get_api_data fails or returns an
\* empty page on page k, the call raises nothing and leaves the loop without
\* touching its batch; no further page is requested; the call returns, oldest
\* first, exactly the new items of pages 1..k-1; and the run goes on: when it
\* has ended, both categories were paginated, every item of the batches whose
\* write and commit did not fail is in the ledger, and the exit code is 0.
C11_FetchFailureEndsData ==
    /\ [][(pc = "paginate" /\ Len(requests') = Len(requests) + 1
              /\ pages_processed' = pages_processed)
          => (pc' = "paginated" /\ posts' = posts /\ exit_code' = "running")]_vars
    /\ [][(LastPageFalsy /\ pc \in {"paginate", "paginated"})
          => (requests' = requests /\ pc' = "archive"
                 /\ returned' = Reverse(posts))]_vars
    /\ []((pc = "archive" /\ new_posts = returned /\ LastPageFalsy)
          => returned = Reverse(NotArchived(
                 SubSeq(feeds[cat], 1, pages_processed * PageLimit), ledger, cat)))
    /\ []((RunEnded /\ hist.cur.fetch_failed # {})
          => /\ hist.cur.paged = Cat
             /\ exit_code = "0"
             /\ \A key \in hist.cur.batched \ hist.cur.failed :
                    /\ key \in Range(hist.cur.ok)
                    /\ is_post_archived(ledger, key[1], key[2]))

\* the favourites' second page failed: the run archived the new items of
\* the first page, in three different seconds, and then the bookmark, and
\* ended
C11_Witness ==
    /\ RunEnded
    /\ hist.cur.fetch_failed = {<<"favorite", 2>>}
    /\ Len(hist.cur.ok) = NewItems + 1
    /\ hist.cur.ok[Len(hist.cur.ok)] = Key(feeds["bookmark"][1], "bookmark")
    /\ \E i, j \in 1..Len(ledger) :
           /\ ledger[i].post_type = "favorite" /\ ledger[j].post_type = "favorite"
           /\ 0 < ledger[i].archived_at
           /\ ledger[i].archived_at + 1 < ledger[j].archived_at

\* C12 (recovery of a cut-short pagination): when a run whose pagination was
\* cut short by a fetch failure on a page k > 1 has completed (the items of
\* pages 1..k-1 archived, those of the later pages never collected), and the
\* next run, against the same feeds and without any failure, has completed,
\* then every item of the feeds is archived.
C12_CutShortRecovered ==
    (RunEnded /\ hist.cur.clean /\ hist.prev.completed
        /\ hist.prev.failed = {}
        /\ \E c \in Cat, k \in 2..max_pages : <<c, k>> \in hist.prev.fetch_failed)
    => \A c \in Cat : \A i \in 1..Len(feeds[c]) :
           is_post_archived(ledger, feeds[c][i], c)

\* the page a FetchPage step received (empty when the request failed)
PageOfStep == SubSeq(seen', Len(seen) + 1, Len(seen'))

\* C17 (a full page of archived items continues pagination): a fetched page
\* of exactly PageLimit items, none of them the marker and all of them in
\* the ledger under the category, adds nothing to the batch and leaves the
\* loop running with the cursor on its last item; below the page cap the
\* next page can then be requested; and the loop is left only when the page
\* held the marker, failed or was empty, had fewer than PageLimit items, or
\* the cap was reached.
C17_StalePageContinues ==
    /\ [][(pc = "paginate" /\ Len(requests') = Len(requests) + 1
              /\ Len(PageOfStep) = PageLimit
              /\ last_archived_id \notin Range(PageOfStep)
              /\ \A p \in Range(PageOfStep) : is_post_archived(ledger, p, cat))
          => (posts' = posts /\ pc' = "paginate"
                 /\ max_id' = PageOfStep[PageLimit])]_vars
    /\ []((pc = "paginate" /\ pages_processed > 0 /\ pages_processed < max_pages
              /\ \A i \in (Len(seen) - PageLimit + 1)..Len(seen) :
                     is_post_archived(ledger, seen[i], cat))
          => ENABLED FetchPage)
    /\ [][(pc = "paginate" /\ pc' # "paginate")
          => \/ Len(requests') = Len(requests) + 1
                   /\ \/ PageOfStep = <<>>
                      \/ Len(PageOfStep) < PageLimit
                      \/ last_archived_id \in Range(PageOfStep)
             \/ requests' = requests /\ pages_processed >= max_pages]_vars

\* the first page was full and archived and did not hold the marker: nothing
\* was collected from it and a second page has been processed
C17_Witness ==
    /\ pc \in {"paginate", "paginated"}
    /\ pages_processed = 2
    /\ last_archived_id \notin Range(SubSeq(seen, 1, PageLimit))
    /\ \A i \in 1..PageLimit : is_post_archived(ledger, seen[i], cat)
    /\ \A i \in 1..Len(posts) : IndexOf(seen, posts[i]) > PageLimit

\* C20 (cursor progression): the first request of a call carries no max_id;
\* every later request carries the id of the last item of the page before
\* it; a request is issued only when every page received so far was full and
\* scanned to its end (no marker met, every item collected or found in the
\* ledger); and every request asks for PageLimit items.
C20_CursorProgression ==
    /\ [](requests # <<>> => requests[1].max_id = None)
    /\ [][Len(requests') = Len(requests) + 1
          => LET r == requests'[Len(requests')]
             IN /\ r.limit = PageLimit
                /\ r.max_id = (IF requests = <<>> THEN None ELSE seen[Len(seen)])
                /\ Len(seen) = PageLimit * Len(requests)
                /\ last_archived_id \notin Range(seen)
                /\ posts = NotArchived(seen, ledger, cat)]_vars

\* a third page has been requested, with the last item of the second page
\* as its cursor
C20_Witness ==
    /\ Len(requests) >= 3
    /\ Len(seen) >= 2 * PageLimit
    /\ requests[3].max_id = seen[2 * PageLimit]
    /\ requests[2].max_id = seen[PageLimit]
    /\ requests[1].max_id = None

\* C18 (oldest-first processing advances the marker): after every
\* archive_post that returned True the category's marker (the post_id of its
\* row with the latest archived_at) is the item just archived, and after a
\* failure-free run the marker of a category in which the run archived
\* something is the newest item of its feed, also when several items were
\* committed within one second.
C18_MarkerFollowsArchive ==
    /\ last_call.result = "True"
          => LastArchivedId(ledger, last_call.post_type) = last_call.post_id
    /\ (RunEnded /\ hist.cur.clean)
          => \A c \in Cat :
                 (\E i \in 1..Len(hist.cur.ok) : hist.cur.ok[i][2] = c)
                     => LastArchivedId(ledger, c) = feeds[c][1]

\* C19 (records are write-once): a record posts/<id>.json that has been
\* written completely is never written again; archiving a post under
\* "bookmark" leaves the record written under "favorite" as it was.
C19_RecordsWriteOnce ==
    [][\A post_id \in DOMAIN records :
           records[post_id].complete => records'[post_id] = records[post_id]]_vars

\* the attachments that carry a url, in order
WithUrl(atts) == SelectSeq(atts, LAMBDA a : a.url # None)

\* the download_media calls of one archive_post call, in order
CallLog(post_id, post_type, run) ==
    SelectSeq(download_log, LAMBDA d : d.run = run /\ d.post_id = post_id
                                          /\ d.post_type = post_type)

\* the attachments archive_post is to read for a post
SourceOf(post) == IF post.reblog THEN post.inner ELSE post.own

\* C13 (media fallback): a download that fails leaves archive_post in its
\* loop, on the next attachment, with the run going on; the record is
\* written only when the loop has gone through every attachment of the
\* source; when it is written, download_media
\* was called once for every attachment with a url, whatever failed before
\* it, and the record holds one media_files entry per such attachment, whose
\* local_path is the remote url where the download failed and the local file
\* name otherwise; the item is then committed and archive_post returns True.
C13_MediaFallback ==
    /\ [][(Len(download_log') = Len(download_log) + 1
              /\ download_log'[Len(download_log')].how \in {"refused", "truncated"})
          => /\ pc' = "archive"
             /\ att_i' = att_i + 1
             /\ new_posts' = new_posts
             /\ exit_code' = "running"
             /\ m_files'[Len(m_files')].local_path =
                    <<download_log'[Len(download_log')].url>>]_vars
    /\ [][records' # records
          => att_i = Len(SourceOf(PostOf(content, Head(new_posts))))]_vars
    /\ [](pc = "commit"
          => LET post_id == Head(new_posts)
                 rec == RecordOf(records, post_id)
                 wanted == WithUrl(SourceOf(PostOf(content, post_id)))
                 calls == CallLog(post_id, cat, run_no)
             IN /\ rec.complete
                /\ Len(calls) = Len(wanted)
                /\ Len(rec.media_files) = Len(wanted)
                /\ \A j \in 1..Len(wanted) :
                       /\ calls[j].url = wanted[j].url
                       /\ rec.media_files[j].original_url = wanted[j].url
                       /\ rec.media_files[j].local_path =
                              IF calls[j].how \in {"refused", "truncated"}
                              THEN <<wanted[j].url>>
                              ELSE <<post_id, wanted[j].url, calls[j].index>>)
    /\ [][pc = "commit"
          => /\ last_call'.result = "True"
             /\ last_call'.post_id = Head(new_posts)
             /\ \E i \in 1..Len(ledger') : ledger'[i].post_id = Head(new_posts)]_vars

\* a post with two attachments: the first download failed, the second went
\* through, and the record is written
C13_Witness ==
    /\ pc = "commit"
    /\ LET calls == CallLog(Head(new_posts), cat, run_no)
           rec == RecordOf(records, Head(new_posts))
       IN /\ Len(calls) = 2
          /\ calls[1].how \in {"refused", "truncated"}
          /\ calls[2].how = "ok"
          /\ rec.media_files[1].local_path = <<calls[1].url>>
          /\ Len(rec.media_files[2].local_path) = 3

\* C14 (reblog media sourcing): the record's media_attachments are, in their
\* original order, the attachments (with a url) of the reblogged post when
\* the item is a reblog and the item's own otherwise, and its media_files
\* carry their urls in the same order; no attachment of the outer item is in
\* the record of a reblog.
C14_ReblogMediaSource ==
    pc = "commit"
    => LET post == PostOf(content, Head(new_posts))
           rec == RecordOf(records, Head(new_posts))
           wanted == WithUrl(IF post.reblog THEN post.inner ELSE post.own)
       IN /\ rec.media_attachments = wanted
          /\ [j \in 1..Len(rec.media_files) |-> rec.media_files[j].original_url]
                 = [j \in 1..Len(wanted) |-> wanted[j].url]
          /\ post.reblog
                => \A j \in 1..Len(rec.media_attachments) :
                       rec.media_attachments[j].owner = "inner"

\* the record of a reblog whose outer item has an attachment of its own and
\* whose reblogged post has two
C14_Witness ==
    /\ pc = "commit"
    /\ LET post == PostOf(content, Head(new_posts))
       IN /\ post.reblog
          /\ WithUrl(post.own) # <<>>
          /\ Len(WithUrl(post.inner)) = 2
          /\ Len(RecordOf(records, Head(new_posts)).media_attachments) = 2

\* C15 (per-item failure isolation): when a run in which the archival of an
\* item failed (its write or commit failed, or archive_post raised) has
\* ended, it has completed with exit code 0: both categories were paginated,
\* every item of the batches was passed to archive_post, and no failed item
\* was counted.
C15_FailureIsolated ==
    (pc = "idle" /\ run_no > 0 /\ exit_code # "killed" /\ ~hist.cur.ledger_failed
        /\ (hist.cur.failed # {} \/ hist.cur.raised # NoKey))
    => /\ hist.cur.completed
       /\ exit_code = "0"
       /\ hist.cur.paged = Cat
       /\ hist.cur.batched \subseteq hist.cur.called
       /\ Range(hist.cur.ok) \cap (hist.cur.failed \cup {hist.cur.raised}) = {}
       /\ \A c \in Cat : archived_count[c] =
              Cardinality({i \in 1..Len(hist.cur.ok) : hist.cur.ok[i][2] = c})

\* C16 (exit contract): a run that completed, with or without new items and
\* with or without failed pages or items, ends with exit code 0. When the
\* ledger cannot be opened (init_db) or read (a boundary query or
\* is_post_archived raises), the invocation ends with exit code 1; the step
\* in which the error is raised writes no record, no media file and no row;
\* and once an invocation has ended with exit code 1 nothing is requested,
\* written or committed until main() is invoked again and run() is entered.
\* When MASTODON_BASE_URL or MASTODON_ACCESS_TOKEN is missing, every
\* invocation exits with code 1 with no directory, log file or ledger
\* created, no request sent, nothing written and no run started.
C16_ExitContract ==
    /\ [](RunEnded => exit_code = "0")
    /\ [](hist.cur.ledger_failed
          => /\ exit_code = "1"
             /\ pc \in {"idle", "exited"}
             /\ ~hist.cur.completed)
    /\ [][(hist'.cur.ledger_failed /\ hist' # hist)
          => /\ exit_code' = "1"
             /\ ledger' = ledger
             /\ records' = records
             /\ media' = media
             /\ writes' = writes
             /\ hist'.cur.paged \subseteq hist.cur.paged
             /\ archived_count' # archived_count => run_no' = run_no + 1]_vars
    /\ [][exit_code = "1"
          => \/ run_no' = run_no + 1 /\ created' = Everything
             \/ /\ pc' \in {"idle", "exited"}
                /\ exit_code' = "1"
                /\ ledger' = ledger /\ records' = records /\ media' = media
                /\ writes' = writes /\ requests' = requests
                /\ new_posts' = new_posts]_vars
    /\ [](~(config["base_url"] /\ config["access_token"])
          => /\ pc = "start" \/ (pc = "exited" /\ exit_code = "1")
             /\ created = {}
             /\ requests = <<>>
             /\ ledger = <<>>
             /\ records = <<>>
             /\ media = <<>>
             /\ writes = 0
             /\ run_no = 0)

\* a run archived the first favourite and then could not read the ledger for
\* the second: the process exited with code 1, the bookmarks never paginated
C16_Witness ==
    /\ hist.cur.ledger_failed
    /\ exit_code = "1"
    /\ pc = "idle"
    /\ hist.cur.ok # <<>>
    /\ hist.cur.raised # NoKey
    /\ hist.cur.paged = {"favorite"}
    /\ feeds["bookmark"] # <<>>

====
